---- MODULE Spec2Model ----
(***************************************************************************)
(* Model of the HTTP transport of jsonrpc-client-rs (src/http/src/lib.rs): *)
(* the builder and its two execution contexts, the HttpTransport and its   *)
(* HttpHandles, the request channel (futures mpsc::unbounded), the         *)
(* per-request oneshot response slot, and the request processing future    *)
(* (request_rx.for_each) that runs on the Tokio core.                      *)
(***************************************************************************)
EXTENDS Bags, FiniteSets, Integers, Sequences, TLC

(* ------------------------------ bounds -------------------------------- *)

\* Number of send() calls explored.
MaxSends == 2
\* Number of get_next_id() calls explored.
MaxIds == 5
\* Number of HttpHandle values alive at once.
MaxHandles == 2
\* Number of HttpTransport values (the built one and its clones) alive at once.
MaxTransports == 2

(* ------------------------- program constants -------------------------- *)

\* hyper::StatusCode::Ok
StatusOk == 200
\* Initial value of the AtomicUsize of HttpTransport::new.
FirstId == 1
\* Width of usize (and of the u64 get_next_id returns) on a 64-bit target.
UsizeBits == 64

(* ------------------------------ inputs -------------------------------- *)

\* Destination addresses given to HttpTransport::handle (valid URIs).
Uris == {"a", "b"}
\* json_data payloads given to send.
Payloads == {<<1, 2>>}
\* Status codes an HTTP server answers with.
Statuses == {StatusOk, 404}
\* Response bodies, as the sequence of chunks the body stream yields.
Bodies == {<< <<7>>, <<8, 9>> >>}

(* ------------------------------ results ------------------------------- *)

\* Result<Vec<u8>> values and the errors of error_chain!, as uniform records.
Val(kind, code, bytes) == [kind |-> kind, code |-> code, bytes |-> bytes]

OkBytes(b) == Val("Ok", 0, b)
HttpError(code) == Val("HttpError", code, << >>)
HyperError == Val("Hyper", 0, << >>)
NotListening == Val("TokioCoreError: Not listening for requests", 0, << >>)
DiedWithoutResponse == Val("TokioCoreError: Died without returning response", 0, << >>)

\* States of a oneshot slot and of a send future that hold no result.
Empty == Val("Empty", 0, << >>)
Canceled == Val("Canceled", 0, << >>)
Pending == Val("Pending", 0, << >>)
Dropped == Val("Dropped", 0, << >>)

\* What the network did for one request, recorded when it happens.
NoExchange == [kind |-> "none", status |-> 0, chunks |-> << >>]
NetFailure == [kind |-> "neterr", status |-> 0, chunks |-> << >>]
GotHead(status) == [kind |-> "head", status |-> status, chunks |-> << >>]
BodyFailure(status) == [kind |-> "bodyerr", status |-> status, chunks |-> << >>]
Full(status, chunks) == [kind |-> "full", status |-> status, chunks |-> chunks]

VARIABLES
    extHandle,      \* HttpTransportBuilder.handle is Some
    clientBuilder,  \* behaviour of HttpTransportBuilder.client_builder: "ok" | "fail"
    bpc,            \* the thread calling build(): "config" | "recv" | "done"
    buildResult,    \* what build() returned: "none" | "ok" | an ErrorKind
    tpc,            \* the standalone thread: "none" | "create" | "send" | "run" | "exiting" | "exited"
    created,        \* result of create_standalone_core: "none" | "ok" | an ErrorKind
    handoff,        \* messages on the std::sync::mpsc channel of build()
    transports,     \* number of live HttpTransport values
    cells,          \* the AtomicUsize allocated by HttpTransport::new, as a sequence of cells
    handles,        \* bag of live HttpHandle values [uri, id]
    ids,            \* values returned by get_next_id, in the order of the fetch_adds
    loop,           \* the for_each future: "none" | "running" | "done_ok" | "done_err" | "dropped"
    queue,          \* content of the mpsc::unbounded channel: send numbers, oldest first
    inflight,       \* send numbers whose request future for_each is driving (ForEach.fut)
    reqs,           \* reqs[r]: the hyper Request built by the r-th send
    accepted,       \* accepted[r]: UnboundedSender::send returned Ok for the r-th send
    exch,           \* exch[r]: what the network did for the r-th send's request
    started,        \* send numbers in the order client.request was called for them
    slot,           \* slot[r]: the oneshot channel of the r-th send
    fut             \* fut[r]: the future returned by the r-th send: Pending | Dropped | its result

vars == <<extHandle, clientBuilder, bpc, buildResult, tpc, created, handoff,
          transports, cells, handles, ids, loop, queue, inflight, reqs, accepted,
          exch, started, slot, fut>>

buildVars == <<extHandle, clientBuilder, bpc, buildResult, tpc, created, handoff>>
refVars == <<transports, cells, handles>>
loopVars == <<loop, queue, inflight>>
sendVars == <<reqs, accepted, exch, started, slot, fut>>

(* ------------------------------ helpers ------------------------------- *)

\* The id field of the HttpTransport: a reference to the cell made by new().
TransportId == Len(cells)

\* Number of live UnboundedSender clones of the request channel: one per
\* HttpTransport, one per HttpHandle, and the request_tx the standalone
\* thread holds between create_standalone_core and HttpTransport::new.
Senders ==
    transports + BagCardinality(handles)
        + (IF tpc = "send" /\ created = "ok" THEN 1 ELSE 0)

\* The UnboundedReceiver exists (it is owned by the for_each future).
ReceiverAlive == loop \in {"running", "done_ok", "done_err"}

\* The Tokio core the for_each future was given to is polling it.
LoopScheduled == IF extHandle THEN bpc = "done" ELSE tpc = "run"

\* The user holds the built transport: build() returned Ok.
Built == bpc = "done" /\ buildResult = "ok"

Sent == 1..Len(reqs)

(* ------------------------ pure parts of the code ---------------------- *)

\* Stream::concat2 followed by to_vec(): the chunks of the body, joined in order.
RECURSIVE Concat2(_)
Concat2(chunks) ==
    IF chunks = << >> THEN << >> ELSE Head(chunks) \o Concat2(Tail(chunks))

\* ResponseResult with the status dropped: every failure becomes the generic error.
ResponseResultGeneric(x) ==
    IF x.kind = "full" THEN OkBytes(Concat2(x.chunks)) ELSE HyperError

\* The and_then / map chain of the processing future: the Result<Vec<u8>> that
\* one finished HTTP exchange x turns into.
ResponseResult(x) ==
    CASE x.kind = "neterr" -> HyperError
      [] x.kind = "head" -> HttpError(x.status)
      [] x.kind = "bodyerr" -> HyperError
      [] x.kind = "full" -> OkBytes(Concat2(x.chunks))

\* The status check of the first and_then: the response goes on to the body.
StatusAccepted(status) == status = StatusOk

\* oneshot::Sender::send: Ok iff the Receiver (owned by the send future f)
\* has not been dropped.
SlotSendOk(f) == f = Pending

\* State of the for_each future after the `then` closure returned: map_err
\* turns a failed oneshot send into Err(()), which for_each propagates.
AfterThen(delivered) == IF delivered THEN "running" ELSE "done_err"

\* MayDequeue of a loop that spawns each request instead of awaiting it.
MayDequeueAlways == TRUE

\* ForEach::poll takes the next item of the stream only when it holds no
\* unfinished future of an earlier item.
MayDequeue == inflight = {}

\* create_request with one destination for every handle of the transport.
create_request_shared_uri(h, body) ==
    [method |-> "POST", uri |-> CHOOSE u \in Uris : TRUE,
     content_type |-> "application/json",
     content_length |-> Len(body), body |-> body]

\* HttpHandle::create_request.
create_request(h, body) ==
    [method |-> "POST", uri |-> h.uri, content_type |-> "application/json",
     content_length |-> Len(body), body |-> body]

\* Machine words are kept at their width: a word is the sequence of its
\* 16-bit limbs, least significant first.
LimbBase == 2^16
Limbs == UsizeBits \div 16

\* The word of a number below LimbBase.
ToWord(n) == [i \in 1..Limbs |-> IF i = 1 THEN n ELSE 0]

\* w + 1 at the width of w, wrapping to zero from the largest word.
WordInc(w) ==
    LET carry == {i \in DOMAIN w : \A k \in 1..i : w[k] = LimbBase - 1}
    IN  [i \in DOMAIN w |->
            IF i \in carry THEN 0
            ELSE IF i = 1 \/ (i - 1) \in carry THEN w[i] + 1
            ELSE w[i]]

\* AtomicUsize::fetch_add(1): the value stored (wrapping).
FetchAdd(v) == WordInc(v)

\* `as u64` of the usize that fetch_add returns: zero-extended to 64 bits.
AsU64(w) == [i \in 1..(64 \div 16) |-> IF i \in DOMAIN w THEN w[i] ELSE 0]

\* Arc::clone of the id field: the same cell.
ArcClone(ref) == ref

\* Enqueue that ignores whether the receiver exists.
EnqueueAlways(q, r, alive) == Append(q, r)

\* UnboundedSender::send of message number r on the channel holding q:
\* the message is queued iff the receiver still exists.
Enqueue(q, r, alive) == IF alive THEN Append(q, r) ELSE q

\* SendOutcome of a send that does not look at the result of
\* UnboundedSender::send and waits for the oneshot in every case.
SendOutcomeWaits(acc, s) ==
    IF s = Canceled THEN DiedWithoutResponse
    ELSE IF s = Empty THEN Pending
    ELSE s

\* What the future returned by send resolves to, Pending while it cannot:
\* acc is the result of UnboundedSender::send, s the oneshot slot.
SendOutcome(acc, s) ==
    IF ~acc THEN NotListening
    ELSE IF s = Canceled THEN DiedWithoutResponse
    ELSE IF s = Empty THEN Pending
    ELSE s

(* -------------------------------- Init -------------------------------- *)

\* HttpTransport::builder(): default client builder, no handle; nothing built.
Init ==
    /\ extHandle = FALSE
    /\ clientBuilder = "ok"
    /\ bpc = "config"
    /\ buildResult = "none"
    /\ tpc = "none"
    /\ created = "none"
    /\ handoff = << >>
    /\ transports = 0
    /\ cells = << >>
    /\ handles = EmptyBag
    /\ ids = << >>
    /\ loop = "none"
    /\ queue = << >>
    /\ inflight = {}
    /\ reqs = << >>
    /\ accepted = << >>
    /\ exch = << >>
    /\ started = << >>
    /\ slot = << >>
    /\ fut = << >>

(* ------------------------------ builder ------------------------------- *)

\* HttpTransportBuilder::client: replace the client construction strategy.
BuilderClient(cb) ==
    /\ bpc = "config"
    /\ clientBuilder # cb
    /\ clientBuilder' = cb
    /\ UNCHANGED <<extHandle, bpc, buildResult, tpc, created, handoff>>
    /\ UNCHANGED <<refVars, ids, loopVars, sendVars>>

\* HttpTransportBuilder::handle: run on the given reactor.
BuilderHandle ==
    /\ bpc = "config"
    /\ ~extHandle
    /\ extHandle' = TRUE
    /\ UNCHANGED <<clientBuilder, bpc, buildResult, tpc, created, handoff>>
    /\ UNCHANGED <<refVars, ids, loopVars, sendVars>>

\* HttpTransport::new: a fresh counter cell holding FirstId.
NewCells == Append(cells, ToWord(FirstId))

\* BuildEmbedded of a build() that takes the thread::spawn branch although a
\* reactor handle was given.
BuildEmbeddedSpawning ==
    /\ bpc = "config"
    /\ extHandle
    /\ bpc' = "recv"
    /\ tpc' = "create"
    /\ UNCHANGED <<extHandle, clientBuilder, buildResult, created, handoff>>
    /\ UNCHANGED <<refVars, ids, loopVars, sendVars>>

\* build() with a reactor handle: all on the calling thread.
BuildEmbedded ==
    /\ bpc = "config"
    /\ extHandle
    /\ bpc' = "done"
    /\ IF clientBuilder = "fail"
       THEN /\ buildResult' = "ClientBuilderError"
            /\ UNCHANGED <<transports, cells, loop>>
       ELSE /\ buildResult' = "ok"
            /\ loop' = "running"
            /\ transports' = 1
            /\ cells' = NewCells
    /\ UNCHANGED <<extHandle, clientBuilder, tpc, created, handoff>>
    /\ UNCHANGED <<handles, ids, queue, inflight, sendVars>>

\* build() without a reactor handle: spawn the thread, then block in rx.recv().
BuildSpawn ==
    /\ bpc = "config"
    /\ ~extHandle
    /\ bpc' = "recv"
    /\ tpc' = "create"
    /\ UNCHANGED <<extHandle, clientBuilder, buildResult, created, handoff>>
    /\ UNCHANGED <<refVars, ids, loopVars, sendVars>>

\* The result of create_standalone_core, given whether Core::new succeeded.
StandaloneCore(coreOk) ==
    IF ~coreOk THEN "TokioCoreError"
    ELSE IF clientBuilder = "fail" THEN "ClientBuilderError"
    ELSE "ok"

\* The thread runs create_standalone_core.
ThreadCreateCore ==
    /\ tpc = "create"
    /\ \E coreOk \in BOOLEAN :
          /\ created' = StandaloneCore(coreOk)
          /\ loop' = IF created' = "ok" THEN "running" ELSE loop
    /\ tpc' = "send"
    /\ UNCHANGED <<extHandle, clientBuilder, bpc, buildResult, handoff>>
    /\ UNCHANGED <<refVars, ids, queue, inflight, sendVars>>

\* AfterHandoff of a thread that runs its core whatever it reported.
AfterHandoffRun(c) == "run"

\* Where the thread goes after tx.send: core.run(future), or out of the match.
AfterHandoff(c) == IF c = "ok" THEN "run" ELSE "exiting"

\* ThreadSend of a thread that runs its core first and leaves the handing
\* over for later: it goes on without a message on the channel.
ThreadSendLate ==
    /\ tpc = "send"
    /\ handoff' = handoff
    /\ tpc' = AfterHandoff(created)
    /\ IF created = "ok"
       THEN transports' = 1 /\ cells' = NewCells
       ELSE UNCHANGED <<transports, cells>>
    /\ UNCHANGED <<extHandle, clientBuilder, bpc, buildResult, created>>
    /\ UNCHANGED <<handles, ids, loopVars, sendVars>>

\* The thread hands the transport or the error over to build().
ThreadSend ==
    /\ tpc = "send"
    /\ handoff' = Append(handoff, created)
    /\ tpc' = AfterHandoff(created)
    /\ IF created = "ok"
       THEN transports' = 1 /\ cells' = NewCells
       ELSE UNCHANGED <<transports, cells>>
    /\ UNCHANGED <<extHandle, clientBuilder, bpc, buildResult, created>>
    /\ UNCHANGED <<handles, ids, loopVars, sendVars>>

\* rx.recv().unwrap() returns in build().
BuildRecv ==
    /\ bpc = "recv"
    /\ handoff # << >>
    /\ buildResult' = handoff[1]
    /\ bpc' = "done"
    /\ UNCHANGED <<extHandle, clientBuilder, tpc, created, handoff>>
    /\ UNCHANGED <<refVars, ids, loopVars, sendVars>>

\* debug!("Standalone HttpTransport thread exiting") and the end of the closure.
ThreadExit ==
    /\ tpc = "exiting"
    /\ tpc' = "exited"
    /\ UNCHANGED <<extHandle, clientBuilder, bpc, buildResult, created, handoff>>
    /\ UNCHANGED <<refVars, ids, loopVars, sendVars>>

(* ----------------------- transport and handles ------------------------ *)

\* #[derive(Clone)] on HttpTransport.
TransportClone ==
    /\ Built
    /\ transports >= 1
    /\ transports < MaxTransports
    /\ transports' = transports + 1
    /\ UNCHANGED <<buildVars, cells, handles, ids, loopVars, sendVars>>

\* An HttpTransport value is dropped.
TransportDrop ==
    /\ Built
    /\ transports >= 1
    /\ transports' = transports - 1
    /\ UNCHANGED <<buildVars, cells, handles, ids, loopVars, sendVars>>

\* HttpTransport::handle(uri), for a uri that parses.
TransportHandle(uri) ==
    /\ Built
    /\ transports >= 1
    /\ BagCardinality(handles) < MaxHandles
    /\ handles' = handles (+) SetToBag({[uri |-> uri, id |-> ArcClone(TransportId)]})
    /\ UNCHANGED <<buildVars, transports, cells, ids, loopVars, sendVars>>

\* #[derive(Clone)] on HttpHandle.
HandleClone(h) ==
    /\ BagIn(h, handles)
    /\ BagCardinality(handles) < MaxHandles
    /\ handles' = handles (+) SetToBag({[uri |-> h.uri, id |-> ArcClone(h.id)]})
    /\ UNCHANGED <<buildVars, transports, cells, ids, loopVars, sendVars>>

\* An HttpHandle value is dropped.
HandleDrop(h) ==
    /\ BagIn(h, handles)
    /\ handles' = handles (-) SetToBag({h})
    /\ UNCHANGED <<buildVars, transports, cells, ids, loopVars, sendVars>>

\* HttpHandle::get_next_id on handle h.
get_next_id(h) ==
    /\ BagIn(h, handles)
    /\ Len(ids) < MaxIds
    /\ ids' = Append(ids, AsU64(cells[h.id]))
    /\ cells' = [cells EXCEPT ![h.id] = FetchAdd(@)]
    /\ UNCHANGED <<buildVars, transports, handles, loopVars, sendVars>>

(* ------------------------------- send --------------------------------- *)

\* HttpHandle::send(json_data) on handle h: the request and the oneshot are
\* made and the pair is put on the channel before the future is returned.
send(h, json_data) ==
    /\ BagIn(h, handles)
    /\ Len(reqs) < MaxSends
    /\ reqs' = Append(reqs, create_request(h, json_data))
    /\ accepted' = Append(accepted, ReceiverAlive)
    /\ queue' = Enqueue(queue, Len(reqs) + 1, ReceiverAlive)
    /\ exch' = Append(exch, NoExchange)
    /\ slot' = Append(slot, Empty)
    /\ fut' = Append(fut, Pending)
    /\ UNCHANGED <<buildVars, refVars, ids, loop, inflight, started>>

\* The caller polls the future of the r-th send and it is ready.
Resolve(r) ==
    /\ fut[r] = Pending
    /\ SendOutcome(accepted[r], slot[r]) # Pending
    /\ fut' = [fut EXCEPT ![r] = SendOutcome(accepted[r], slot[r])]
    /\ UNCHANGED <<buildVars, refVars, ids, loopVars, reqs, accepted, exch, started, slot>>

\* The caller drops the future of the r-th send before it resolved.
DropFuture(r) ==
    /\ fut[r] = Pending
    /\ fut' = [fut EXCEPT ![r] = Dropped]
    /\ UNCHANGED <<buildVars, refVars, ids, loopVars, reqs, accepted, exch, started, slot>>

(* -------------------------- processing future ------------------------- *)

\* Deliver that writes into the slot of the newest send instead of r's.
DeliverMisrouted(r, res) ==
    /\ slot' = IF SlotSendOk(fut[r]) THEN [slot EXCEPT ![Len(slot)] = res] ELSE slot
    /\ loop' = AfterThen(SlotSendOk(fut[r]))
    /\ inflight' = inflight \ {r}

\* The `then` closure for send number r with result res: response_tx.send,
\* and what becomes of the for_each future.
Deliver(r, res) ==
    /\ slot' = IF SlotSendOk(fut[r]) THEN [slot EXCEPT ![r] = res] ELSE slot
    /\ loop' = AfterThen(SlotSendOk(fut[r]))
    /\ inflight' = inflight \ {r}

\* Dequeue of a channel that yields its newest message first.
DequeueNewest ==
    /\ loop = "running"
    /\ LoopScheduled
    /\ MayDequeue
    /\ queue # << >>
    /\ inflight' = inflight \cup {queue[Len(queue)]}
    /\ queue' = SubSeq(queue, 1, Len(queue) - 1)
    /\ started' = Append(started, queue[Len(queue)])
    /\ UNCHANGED <<buildVars, refVars, ids, loop, reqs, accepted, exch, slot, fut>>

\* The stream yields the next (request, response_tx) and the closure of
\* for_each calls client.request(request).
Dequeue ==
    /\ loop = "running"
    /\ LoopScheduled
    /\ MayDequeue
    /\ queue # << >>
    /\ inflight' = inflight \cup {Head(queue)}
    /\ queue' = Tail(queue)
    /\ started' = Append(started, Head(queue))
    /\ UNCHANGED <<buildVars, refVars, ids, loop, reqs, accepted, exch, slot, fut>>

\* RequestFails of a loop that puts a failed request back at the head of
\* the queue to try it again.
RequestFailsRetry(r) ==
    /\ loop = "running"
    /\ LoopScheduled
    /\ r \in inflight
    /\ exch[r] = NoExchange
    /\ queue' = <<r>> \o queue
    /\ inflight' = inflight \ {r}
    /\ UNCHANGED <<buildVars, refVars, ids, loop, reqs, accepted, exch, started, slot, fut>>

\* client.request fails: the error goes to the slot.
RequestFails(r) ==
    /\ loop = "running"
    /\ LoopScheduled
    /\ r \in inflight
    /\ exch[r] = NoExchange
    /\ exch' = [exch EXCEPT ![r] = NetFailure]
    /\ Deliver(r, ResponseResult(exch'[r]))
    /\ UNCHANGED <<buildVars, refVars, ids, queue, reqs, accepted, started, fut>>

\* client.request yields a response with the given status: a status other
\* than 200 goes to the slot as HttpError, 200 goes on to read the body.
ResponseArrives(r, status) ==
    /\ loop = "running"
    /\ LoopScheduled
    /\ r \in inflight
    /\ exch[r] = NoExchange
    /\ exch' = [exch EXCEPT ![r] = GotHead(status)]
    /\ IF StatusAccepted(status)
       THEN UNCHANGED <<slot, loop, inflight>>
       ELSE Deliver(r, ResponseResult(exch'[r]))
    /\ UNCHANGED <<buildVars, refVars, ids, queue, reqs, accepted, started, fut>>

\* concat2 finishes with all chunks of the body.
BodyComplete(r, chunks) ==
    /\ loop = "running"
    /\ LoopScheduled
    /\ r \in inflight
    /\ exch[r].kind = "head"
    /\ exch' = [exch EXCEPT ![r] = Full(exch[r].status, chunks)]
    /\ Deliver(r, ResponseResult(exch'[r]))
    /\ UNCHANGED <<buildVars, refVars, ids, queue, reqs, accepted, started, fut>>

\* concat2 fails while reading the body.
BodyFails(r) ==
    /\ loop = "running"
    /\ LoopScheduled
    /\ r \in inflight
    /\ exch[r].kind = "head"
    /\ exch' = [exch EXCEPT ![r] = BodyFailure(exch[r].status)]
    /\ Deliver(r, ResponseResult(exch'[r]))
    /\ UNCHANGED <<buildVars, refVars, ids, queue, reqs, accepted, started, fut>>

\* The stream ends: every sender is dropped and the queue is empty, so
\* for_each completes with Ok(()).
StreamEnd ==
    /\ loop = "running"
    /\ LoopScheduled
    /\ MayDequeue
    /\ queue = << >>
    /\ Senders = 0
    /\ loop' = "done_ok"
    /\ UNCHANGED <<buildVars, refVars, ids, queue, inflight, sendVars>>

\* DropSenders of a receiver that leaves its queued messages undropped.
DropSendersLeak(q, fl) == slot

\* The oneshot slots after the receiver of the channel is dropped with the
\* messages in q still queued and the futures in fl unfinished: their
\* response_tx are dropped unused.
DropSenders(q, fl) ==
    [r \in DOMAIN slot |->
        IF (r \in fl \/ \E i \in DOMAIN q : q[i] = r) /\ slot[r] = Empty
        THEN Canceled ELSE slot[r]]

\* The completed for_each future is dropped by the core (core.run returns,
\* or the reactor releases the spawned task), and with it the receiver.
TaskDrop ==
    /\ loop \in {"done_ok", "done_err"}
    /\ loop' = "dropped"
    /\ slot' = DropSenders(queue, inflight)
    /\ queue' = << >>
    /\ inflight' = {}
    /\ tpc' = IF extHandle THEN tpc ELSE "exiting"
    /\ UNCHANGED <<extHandle, clientBuilder, bpc, buildResult, created, handoff>>
    /\ UNCHANGED <<refVars, ids, reqs, accepted, exch, started, fut>>

(* ---------------------------- specification --------------------------- *)

\* Building the transport, and the life of HttpTransport and HttpHandle values.
Lifecycle ==
    \/ \E cb \in {"ok", "fail"} : BuilderClient(cb)
    \/ BuilderHandle
    \/ BuildEmbedded
    \/ BuildSpawn
    \/ ThreadCreateCore
    \/ ThreadSend
    \/ BuildRecv
    \/ ThreadExit
    \/ TransportClone
    \/ TransportDrop
    \/ \E uri \in Uris : TransportHandle(uri)
    \/ \E h \in BagToSet(handles) : HandleClone(h)
    \/ \E h \in BagToSet(handles) : HandleDrop(h)

\* The send path: callers, the request channel and the processing future.
Dispatch ==
    \/ \E h \in BagToSet(handles), p \in Payloads : send(h, p)
    \/ \E r \in Sent : Resolve(r)
    \/ \E r \in Sent : DropFuture(r)
    \/ Dequeue
    \/ \E r \in inflight : RequestFails(r)
    \/ \E r \in inflight, status \in Statuses : ResponseArrives(r, status)
    \/ \E r \in inflight, chunks \in Bodies : BodyComplete(r, chunks)
    \/ \E r \in inflight : BodyFails(r)
    \/ StreamEnd
    \/ TaskDrop

\* Identifier issuance.
Identifiers ==
    \E h \in BagToSet(handles) : get_next_id(h)

\* get_next_id reads and writes only the counter cell (and its history ids),
\* which no step of the send path reads or writes, so the send path and the
\* identifiers are explored in two specifications over the same lifecycle.
Next == Lifecycle \/ Dispatch

NextIds == Lifecycle \/ Identifiers

\* The send path.
Spec == Init /\ [][Next]_vars

\* The identifier counter.
SpecIds == Init /\ [][NextIds]_vars

\* The whole program.
SpecAll == Init /\ [][Next \/ NextIds]_vars

\* One poll of the processing future by the core it runs on, or the release
\* of the completed future by that core.
LoopStep ==
    \/ Dequeue
    \/ \E r \in inflight : RequestFails(r)
    \/ \E r \in inflight, status \in Statuses : ResponseArrives(r, status)
    \/ \E r \in inflight, chunks \in Bodies : BodyComplete(r, chunks)
    \/ \E r \in inflight : BodyFails(r)
    \/ StreamEnd
    \/ TaskDrop

\* One step of the closure given to thread::spawn.
ThreadStep == ThreadCreateCore \/ ThreadSend \/ ThreadExit

\* The reactor keeps running and every exchange it started comes to an end
\* (LoopStep); the operating system schedules the spawned thread and the
\* thread blocked in rx.recv(); a caller that keeps the future of a send
\* polls it.
Fairness ==
    /\ WF_vars(LoopStep)
    /\ WF_vars(ThreadStep)
    /\ WF_vars(BuildRecv)
    /\ \A r \in 1..MaxSends : WF_vars(r \in Sent /\ Resolve(r))

\* Destination addresses of the handles in SpecFair. Whether a send comes to
\* resolve does not depend on the address its request carries (no step of
\* the channel or of the processing future reads it), so one is drawn.
FairUris == {"a"}

\* Next, with the handles' addresses drawn from FairUris.
NextFair ==
    \/ \E cb \in {"ok", "fail"} : BuilderClient(cb)
    \/ BuilderHandle
    \/ BuildEmbedded
    \/ BuildSpawn
    \/ ThreadCreateCore
    \/ ThreadSend
    \/ BuildRecv
    \/ ThreadExit
    \/ TransportClone
    \/ TransportDrop
    \/ \E uri \in FairUris : TransportHandle(uri)
    \/ \E h \in BagToSet(handles) : HandleClone(h)
    \/ \E h \in BagToSet(handles) : HandleDrop(h)
    \/ Dispatch

\* The send path on a reactor that keeps running.
SpecFair == Init /\ [][NextFair]_vars /\ Fairness

\* The largest word less k: usize::MAX - k, for k below LimbBase.
NearMax(k) ==
    [i \in 1..Limbs |-> IF i = 1 THEN LimbBase - 1 - k ELSE LimbBase - 1]

\* Values the counter cell holds in the life of a transport: FirstId after
\* HttpTransport::new, and the values just below usize::MAX that the calls
\* of get_next_id made so far have brought it to.
CountersReached == {ToWord(FirstId), NearMax(2), NearMax(1), NearMax(0)}

\* A transport built on a given reactor, later in its life: get_next_id has
\* been called some number of times; ids records the calls from here on.
InitLate ==
    /\ extHandle = TRUE
    /\ clientBuilder = "ok"
    /\ bpc = "done"
    /\ buildResult = "ok"
    /\ tpc = "none"
    /\ created = "none"
    /\ handoff = << >>
    /\ transports = 1
    /\ cells \in {<<c>> : c \in CountersReached}
    /\ handles = EmptyBag
    /\ ids = << >>
    /\ loop = "running"
    /\ queue = << >>
    /\ inflight = {}
    /\ reqs = << >>
    /\ accepted = << >>
    /\ exch = << >>
    /\ started = << >>
    /\ slot = << >>
    /\ fut = << >>

\* The built transport, its handles and get_next_id.
NextLate ==
    \/ TransportClone
    \/ TransportDrop
    \/ \E uri \in Uris : TransportHandle(uri)
    \/ \E h \in BagToSet(handles) : HandleClone(h)
    \/ \E h \in BagToSet(handles) : HandleDrop(h)
    \/ \E h \in BagToSet(handles) : get_next_id(h)

\* The identifier counter over the whole range of its word.
SpecLate == InitLate /\ [][NextLate]_vars

TypeOK ==
    /\ extHandle \in BOOLEAN
    /\ transports \in 0..MaxTransports
    /\ BagCardinality(handles) <= MaxHandles
    /\ Len(ids) <= MaxIds
    /\ Len(reqs) <= MaxSends

(* ------------------------------- claims ------------------------------- *)

Range(q) == {q[i] : i \in DOMAIN q}

\* The HTTP exchange x is over: nothing more of it will be read.
ExchangeDone(x) ==
    \/ x.kind \in {"neterr", "bodyerr", "full"}
    \/ x.kind = "head" /\ x.status # StatusOk

\* The future f of a send resolved with what the processing future wrote.
Resolved(f) == f \notin {Pending, Dropped, NotListening, DiedWithoutResponse}

C1_SlotHoldsOwnExchange ==
    \A r \in Sent :
        /\ slot[r] \notin {Empty, Canceled} =>
               ExchangeDone(exch[r]) /\ slot[r] = ResponseResult(exch[r])
        /\ Resolved(fut[r]) => fut[r] = slot[r]

C1_WrittenOnce ==
    \A r \in Sent :
        /\ slot[r] # Empty => slot'[r] = slot[r]
        /\ fut[r] # Pending => fut'[r] = fut[r]

\* C1: a response slot only ever holds the outcome of the HTTP exchange of
\* the request that was enqueued with it, the caller of that send resolves
\* with exactly that value, and a slot or a future that holds a value never
\* changes again (each send receives at most one result).
C1_EachResultToItsCaller ==
    []C1_SlotHoldsOwnExchange /\ [][C1_WrittenOnce]_vars

\* C1 witness: two sends on handles for different addresses both resolved,
\* with different outcomes.
C1_Witness ==
    \E r1, r2 \in Sent :
        /\ reqs[r1].uri # reqs[r2].uri
        /\ Resolved(fut[r1]) /\ Resolved(fut[r2])
        /\ fut[r1] # fut[r2]

\* C2 (as claimed): in every state in which the for_each future has completed
\* (or has been dropped after completing), no HttpTransport and no HttpHandle
\* exists any more.
C2_LoopEndsOnlyWhenSendersGone ==
    loop \in {"done_ok", "done_err", "dropped"} =>
        transports = 0 /\ BagCardinality(handles) = 0

\* C3 (as claimed): when the future of some send was dropped, no other send
\* resolves with "Not listening for requests" or "Died without returning
\* response".
C3_AbandonedSendHarmsNoOther ==
    \A r \in Sent :
        (\E q \in Sent \ {r} : fut[q] = Dropped) =>
            fut[r] \notin {NotListening, DiedWithoutResponse}

\* C4 (as claimed): the loop does not wait for the exchange of one request to
\* finish before starting the next: while an exchange is in flight and a
\* request is queued, the loop can take that request.
C4_NextStartsWhileOneInFlight ==
    (loop = "running" /\ LoopScheduled /\ inflight # {} /\ queue # << >>) =>
        ENABLED Dequeue

\* C4 (amended): the loop handles one request at a time: at most one
\* exchange is in flight, and a request is started only when the exchange of
\* every request started before it is over and no longer driven.
C4_OneExchangeAtATime ==
    /\ Cardinality(inflight) <= 1
    /\ \A i, j \in DOMAIN started :
           i < j => ExchangeDone(exch[started[i]]) /\ started[i] \notin inflight

\* C4 witness: A's exchange is in flight (status 200 received, body being
\* read) while B is queued behind it and the loop is being polled.
C4_Witness ==
    /\ loop = "running" /\ LoopScheduled
    /\ inflight = {1}
    /\ exch[1].kind = "head"
    /\ queue = <<2>>

\* a < b for two words of the same width, as unsigned numbers.
WordLess(a, b) ==
    \E i \in DOMAIN a :
        /\ a[i] < b[i]
        /\ \A k \in DOMAIN a : k > i => a[k] = b[k]

\* What stands for a number that no word holds.
NoWord == << >>

\* The number w + d as a word, exactly: NoWord when it is above the largest
\* word.
RECURSIVE WordPlus(_, _)
WordPlus(w, d) ==
    IF d = 0 \/ w = NoWord THEN w
    ELSE IF w = NearMax(0) THEN NoWord
    ELSE WordPlus(WordInc(w), d - 1)

C5_IdsDiffer ==
    /\ \A i, j \in DOMAIN ids : i < j => ids[i] # ids[j]
    /\ Len(cells) <= 1
    /\ \A h \in BagToSet(handles) : h.id = TransportId

C5_CounterNotDecreased ==
    \A c \in DOMAIN cells : ~WordLess(cells'[c], cells[c])

\* C5 (as claimed): no two calls of get_next_id return the same identifier,
\* every handle and every clone refers to the one counter cell of the
\* transport, and no step ever resets or decreases the counter.
C5_UniqueCounterNeverDecreased ==
    []C5_IdsDiffer /\ [][C5_CounterNotDecreased]_vars

\* The identifiers of calls i..j.
IdWords(i, j) == {ids[m] : m \in i..j}

\* C6 (as claimed): the identifiers of any N consecutive calls are, as
\* numbers, exactly {k, k+1, ..., k+N-1} for one of them k, without
\* duplicates.
C6_ExactRange ==
    \A i, j \in DOMAIN ids :
        i <= j =>
            /\ Cardinality(IdWords(i, j)) = j - i + 1
            /\ \E k \in IdWords(i, j) :
                   IdWords(i, j) = {WordPlus(k, d) : d \in 0..(j - i)}

C7_NeverQueuedNorIssued ==
    \A r \in Sent :
        ~accepted[r] =>
            /\ r \notin Range(queue) /\ r \notin inflight /\ r \notin Range(started)
            /\ exch[r] = NoExchange
            /\ fut[r] \in {Pending, Dropped, NotListening}
            /\ fut[r] = Pending => ENABLED Resolve(r)

C7_RefusedWhenReceiverGone ==
    (Len(reqs') = Len(reqs) + 1 /\ ~ReceiverAlive) =>
        /\ queue' = queue
        /\ ~accepted'[Len(reqs')]

\* C7: a send made when the receiver of the request channel is gone does not
\* put its request on the queue; such a request is never queued, never in
\* flight, never issued as an HTTP exchange, and its future can resolve at
\* once and only with "Not listening for requests".
C7_SendAfterLoopGone ==
    []C7_NeverQueuedNorIssued /\ [][C7_RefusedWhenReceiverGone]_vars

\* C7 witness: a send was refused and resolved with "Not listening".
C7_Witness ==
    \E r \in Sent : ~accepted[r] /\ fut[r] = NotListening

\* C8: a request that was accepted onto the channel and whose slot holds no
\* outcome when the processing future is gone has its slot canceled, so its
\* send resolves with "Died without returning response"; and a send resolves
\* with that error only then, never when an outcome was written.
C8_DiedIffLoopGoneUnanswered ==
    \A r \in Sent :
        /\ (accepted[r] /\ loop = "dropped" /\ fut[r] = Pending
                /\ ~(slot[r] \notin {Empty, Canceled})) =>
               /\ slot[r] = Canceled
               /\ SendOutcome(accepted[r], slot[r]) = DiedWithoutResponse
               /\ ENABLED Resolve(r)
        /\ fut[r] = DiedWithoutResponse =>
               /\ accepted[r]
               /\ loop = "dropped"
               /\ slot[r] = Canceled
               /\ ~ExchangeDone(exch[r])

\* C8 witness: a send resolved with "Died without returning response".
C8_Witness ==
    \E r \in Sent : fut[r] = DiedWithoutResponse

\* Sum of the lengths of the first n chunks.
RECURSIVE Offset(_, _)
Offset(chunks, n) ==
    IF n = 0 THEN 0 ELSE Offset(chunks, n - 1) + Len(chunks[n])

\* b is the whole body: every byte of every chunk, at its place.
IsWholeBody(b, chunks) ==
    /\ Len(b) = Offset(chunks, Len(chunks))
    /\ \A i \in DOMAIN chunks : \A j \in DOMAIN chunks[i] :
           b[Offset(chunks, i - 1) + j] = chunks[i][j]

\* What the caller of the r-th send has or is about to have: the resolved
\* value, or the value waiting in the slot.
Yielded(r) == IF fut[r] = Pending THEN slot[r] ELSE fut[r]

\* C9: a send whose exchange returned 200 and the body B yields Ok with
\* exactly the bytes of B; a send whose exchange returned another status
\* yields HttpError with that status and no bytes; and a send yields Ok or
\* HttpError only in these cases.
C9_OutcomeFollowsStatus ==
    \A r \in Sent :
        fut[r] # Dropped =>
            /\ exch[r].kind = "full" =>
                   /\ exch[r].status = StatusOk
                   /\ Yielded(r).kind = "Ok"
                   /\ IsWholeBody(Yielded(r).bytes, exch[r].chunks)
            /\ (exch[r].kind = "head" /\ exch[r].status # StatusOk) =>
                   Yielded(r) = [kind |-> "HttpError", code |-> exch[r].status,
                                 bytes |-> << >>]
            /\ Yielded(r).kind = "Ok" => exch[r].kind = "full"
            /\ Yielded(r).kind = "HttpError" =>
                   exch[r].kind = "head" /\ exch[r].status = Yielded(r).code

\* C9 witness: one send resolved with the bytes of a 200 response and
\* another with HttpError 404.
C9_Witness ==
    \E r1, r2 \in Sent :
        /\ fut[r1].kind = "Ok" /\ fut[r1].bytes = <<7, 8, 9>>
        /\ fut[r2].kind = "HttpError" /\ fut[r2].code = 404

\* The client construction strategy was invoked and failed.
ClientBuildFailed ==
    /\ clientBuilder = "fail"
    /\ \/ extHandle /\ bpc = "done"
       \/ ~extHandle /\ created \notin {"none", "TokioCoreError"}

\* C10: when the client construction strategy fails, build() returns
\* ClientBuilderError in both modes, no request channel, processing future
\* or transport exists, and in standalone mode the thread neither runs a
\* core nor blocks: it reports exactly that error and then exits.
C10_ClientBuilderFailure ==
    ClientBuildFailed =>
        /\ bpc = "done" => buildResult = "ClientBuilderError"
        /\ loop = "none" /\ ~ReceiverAlive
        /\ transports = 0 /\ cells = << >>
        /\ extHandle => tpc = "none"
        /\ ~extHandle =>
               /\ created = "ClientBuilderError"
               /\ tpc \in {"send", "exiting", "exited"}
               /\ tpc = "send" => handoff = << >> /\ ENABLED ThreadSend
               /\ tpc \in {"exiting", "exited"} => handoff = <<"ClientBuilderError">>
               /\ tpc = "exiting" => ENABLED ThreadExit
               /\ bpc = "recv" /\ handoff # << >> => ENABLED BuildRecv

\* C10 witness: standalone build() returned ClientBuilderError and the
\* thread has exited.
C10_Witness ==
    /\ ~extHandle
    /\ bpc = "done"
    /\ buildResult = "ClientBuilderError"
    /\ tpc = "exited"

\* C11 (as claimed): once the processing future is gone and no HttpTransport
\* and no HttpHandle exists, every request that was accepted onto the channel
\* has been handled: the loop took it from the queue before it ended.
C11_QueuedHandledBeforeLoopEnds ==
    (loop = "dropped" /\ transports = 0 /\ BagCardinality(handles) = 0) =>
        \A r \in Sent : accepted[r] => r \in Range(started)

\* The part of C11 that holds of the code: on a reactor that keeps running,
\* once the built transport and all handles are dropped the processing future
\* ends and is released, and the standalone thread exits.
C11_LoopAndThreadEnd ==
    (Built /\ transports = 0 /\ BagCardinality(handles) = 0) ~>
        (loop = "dropped" /\ (~extHandle => tpc = "exited"))

\* C12: in standalone mode the thread puts exactly one message on the handoff
\* channel, the transport or the build error, and does so before it runs the
\* processing future: until then nothing blocks the thread and the future has
\* not been polled; build() can return as soon as the message is there,
\* whatever the state of the processing future and of the thread, and returns
\* exactly that message.
C12_HandoffOnceBeforeLoop ==
    /\ Len(handoff) <= 1
    /\ tpc \in {"none", "create", "send"} => handoff = << >>
    /\ tpc \in {"run", "exiting", "exited"} => handoff = <<created>>
    /\ tpc = "create" => ENABLED ThreadCreateCore
    /\ tpc = "send" => ENABLED ThreadSend
    /\ (~extHandle /\ handoff = << >>) =>
           /\ loop \in {"none", "running"}
           /\ started = << >>
           /\ bpc \in {"config", "recv"} /\ buildResult = "none"
    /\ (bpc = "recv" /\ handoff # << >>) => ENABLED BuildRecv
    /\ (~extHandle /\ bpc = "done") => buildResult = handoff[1]
    /\ bpc = "recv" => ~extHandle

\* C12 witness: standalone build() has returned the transport while the
\* thread is running the processing future, which is in the middle of an
\* exchange.
C12_Witness ==
    /\ ~extHandle
    /\ bpc = "done" /\ buildResult = "ok"
    /\ tpc = "run" /\ loop = "running"
    /\ inflight # {}

\* The for_each future is advanced in this step: it takes a request, moves
\* an exchange on, or completes.
LoopAdvances ==
    \/ Len(started') > Len(started)
    \/ \E r \in Sent : exch'[r] # exch[r]
    \/ loop = "running" /\ loop' # "running"

C13_NoThreadWithHandle ==
    /\ extHandle => tpc = "none" /\ bpc # "recv"
    /\ (extHandle /\ bpc = "config") => ENABLED BuildEmbedded
    /\ (extHandle /\ Built) => loop # "none"
    /\ (~extHandle /\ bpc # "config") => tpc # "none"

C13_OneThreadRunsLoop ==
    /\ (tpc = "none" /\ tpc' # "none") =>
           ~extHandle /\ bpc = "config" /\ bpc' = "recv" /\ tpc' = "create"
    /\ tpc # "none" => tpc' # "none"
    /\ bpc # "config" => bpc' # "config" /\ extHandle' = extHandle
    /\ (extHandle /\ bpc = "config" /\ bpc' # "config") => bpc' = "done"
    /\ LoopAdvances => IF extHandle THEN tpc = "none" /\ bpc = "done" ELSE tpc = "run"

\* C13: with a reactor handle, build() never blocks (it returns in the step
\* it is called in) and no thread is ever spawned, the processing future
\* being a task of the given reactor; without a handle build() spawns a
\* thread, it does so once, since build() is never entered again, and every
\* step of the processing future is taken by that thread inside core.run.
C13_ThreadsAndReactor ==
    []C13_NoThreadWithHandle /\ [][C13_OneThreadRunsLoop]_vars

\* C13 witness: a transport built on a given reactor has an exchange under
\* way and no thread exists.
C13_Witness ==
    /\ extHandle /\ Built
    /\ tpc = "none"
    /\ \E r \in Sent : exch[r].kind = "head"

\* C13 witness for the other mode: the spawned thread is inside core.run and
\* an exchange is under way.
C13_WitnessStandalone ==
    /\ ~extHandle /\ Built
    /\ tpc = "run"
    /\ \E r \in Sent : exch[r].kind = "head"

C14_SameCounter ==
    /\ Len(cells) <= 1
    /\ \A h \in BagToSet(handles) : h.id = TransportId
    /\ \A i \in DOMAIN started : started[i] \in Sent
    /\ \A r \in Sent : exch[r] # NoExchange => r \in Range(started)

C14_SendRoutes ==
    /\ \A h \in BagToSet(handles), p \in Payloads :
           send(h, p) =>
               /\ reqs'[Len(reqs')].uri = h.uri
               /\ reqs'[Len(reqs')].body = p
               /\ ReceiverAlive => queue' = Append(queue, Len(reqs'))
    /\ \A r \in Sent : reqs'[r] = reqs[r]
    /\ Len(started') > Len(started) =>
           /\ started' = Append(started, Head(queue))
           /\ exch'[Head(queue)] = NoExchange

\* C14: the request that a send puts on the channel carries the address of
\* the handle the send was called on (and the payload given), it is never
\* changed while it is queued or in flight, and the exchange the loop issues
\* for a message is the one for the request of that message; all handles of
\* the transport refer to the one counter cell.
C14_RoutedToOwnAddress ==
    []C14_SameCounter /\ [][C14_SendRoutes]_vars

\* C14 witness: two handles for different addresses exist, a send on the
\* handle for "b" was followed by a send on the handle for "a", and both
\* exchanges were issued, each for its own address.
C14_Witness ==
    /\ \E h1, h2 \in BagToSet(handles) : h1.uri # h2.uri
    /\ Len(reqs) = 2 /\ reqs[1].uri = "b" /\ reqs[2].uri = "a"
    /\ started = <<1, 2>>
    /\ exch[1] # NoExchange /\ exch[2] # NoExchange

\* C15 (as claimed): the step in which the loop finishes the exchange of a
\* request whose future was dropped, and attempts the delivery, changes
\* nothing a caller can see: the processing future goes on as before, and no
\* slot, no queued request and no future of a send is touched.
C15_AbandonedDeliveryIsNoOp ==
    [][\A r \in Sent :
          (fut[r] = Dropped /\ r \in inflight /\ r \notin inflight') =>
              /\ loop' = loop
              /\ slot' = slot /\ fut' = fut
              /\ queue' = queue /\ accepted' = accepted]_vars

\* The part of C15 that holds of the code: dropping the future takes nothing
\* back; the request stays where it is and the loop, while it runs, can take
\* it and move its exchange on as for any other request.
C15_ExchangeNotCancelled ==
    /\ \A r \in Sent :
           (fut[r] = Dropped /\ accepted[r] /\ loop = "running") =>
               \/ queue # << >> /\ r \in Range(queue)
               \/ r \in inflight /\ ~ExchangeDone(exch[r])
               \/ r \in Range(started) /\ ExchangeDone(exch[r])
    /\ (loop = "running" /\ LoopScheduled /\ inflight = {} /\ queue # << >>) =>
           ENABLED Dequeue
    /\ \A r \in inflight :
           (loop = "running" /\ LoopScheduled) =>
               ENABLED (RequestFails(r) \/ BodyFails(r))

\* C16: send numbers are given in the order of the enqueues (a send enqueues
\* in the step it is called in). Whenever the exchange of B has been started
\* and A was enqueued before B, the exchange of A was started earlier; and
\* the requests still queued wait in the order of their enqueues, behind
\* everything started.
C16_StartedInSubmissionOrder ==
    /\ \A j \in DOMAIN started : \A a \in Sent :
           (accepted[a] /\ a < started[j]) =>
               \E i \in DOMAIN started : i < j /\ started[i] = a
    /\ \A i, j \in DOMAIN started : i < j => started[i] < started[j]
    /\ \A i, j \in DOMAIN queue : i < j => queue[i] < queue[j]
    /\ \A i \in DOMAIN started, j \in DOMAIN queue : started[i] < queue[j]

\* C16 witness: two requests, from handles for different addresses, were
\* both accepted, and the exchange of the second was started after that of
\* the first.
C16_Witness ==
    /\ Len(reqs) = 2 /\ reqs[1].uri # reqs[2].uri
    /\ accepted[1] /\ accepted[2]
    /\ started = <<1, 2>>
    /\ 2 \in inflight

\* Number of times client.request was called for the r-th send.
Issued(r) == Cardinality({i \in DOMAIN started : started[i] = r})

\* The exchange x ended in a failure: a network error or a status other
\* than 200.
ExchangeFailed(x) ==
    \/ x.kind \in {"neterr", "bodyerr"}
    \/ x.kind = "head" /\ x.status # StatusOk

C17_AtMostOneExchange ==
    /\ \A r \in Sent :
           /\ Issued(r) <= 1
           /\ ~accepted[r] => Issued(r) = 0
           /\ exch[r] # NoExchange => Issued(r) = 1
           /\ r \in inflight => Issued(r) = 1
           /\ Issued(r) = 1 => r \notin Range(queue)
           /\ ExchangeFailed(exch[r]) => r \notin inflight /\ r \notin Range(queue)
    /\ \A i, j \in DOMAIN queue : i # j => queue[i] # queue[j]
    /\ (loop = "running" /\ LoopScheduled /\ inflight = {} /\ queue # << >>) =>
           /\ Issued(Head(queue)) = 0
           /\ ENABLED Dequeue

C17_NeverIssuedAgain ==
    \A r \in Sent :
        /\ Issued(r) = 1 => r \notin Range(queue')
        /\ ExchangeDone(exch[r]) => exch'[r] = exch[r]
        /\ (r \notin inflight /\ Issued(r) = 1) => r \notin inflight'
        /\ (queue # << >> /\ Head(queue) = r /\ Len(started') > Len(started)) =>
               started' = Append(started, r)

\* The part of C17 that holds of the code: client.request is called at most
\* once for every send, and never for a send the channel refused; a request that was taken from the queue is
\* never queued or driven again, also when its exchange failed with a
\* network error or a status other than 200, and the record of a finished
\* exchange never changes; a request at the head of the queue of a running,
\* idle loop has not been issued yet and the loop can take it, and the step
\* that takes a request takes that one.
C17_ConsumedAtMostOnce ==
    []C17_AtMostOneExchange /\ [][C17_NeverIssuedAgain]_vars

C17_HeadOfRunningLoopIssued ==
    \A r \in Sent :
        (loop = "running" /\ queue # << >> /\ Head(queue) = r) =>
            \/ loop' = "running"
            \/ \E i \in DOMAIN started' : started'[i] = r

\* C17 (as claimed): client.request is called at most once for every send,
\* also after a failure, and exactly once for a request that is at the head
\* of the queue while the loop is running: the loop does not end with that
\* request still unissued (a loop that has ended issues nothing more).
C17_OnceAndIssuedAtHead ==
    []C17_AtMostOneExchange /\ [][C17_HeadOfRunningLoopIssued]_vars

\* C17 witness: with the loop still running, one send got a network failure
\* and another a 404, each after a single exchange, and both have resolved.
C17_Witness ==
    /\ loop = "running"
    /\ \E r1, r2 \in Sent :
           /\ exch[r1] = NetFailure /\ fut[r1] = HyperError
           /\ exch[r2] = GotHead(404) /\ fut[r2] = HttpError(404)
           /\ Issued(r1) = 1 /\ Issued(r2) = 1

\* C18 (as claimed): the identifiers increase in the order of the atomic
\* increments, for any number of calls made on the transport.
C18_MonotonicallyIncreasing ==
    \A i, j \in DOMAIN ids : i < j => WordLess(ids[i], ids[j])

\* The part of C18 that holds of the code: get_next_id never fails (it can
\* be called on every live handle, whatever the counter holds), and each
\* call returns the counter and stores its successor in the word.
C18_NeverFails ==
    /\ \A h \in BagToSet(handles) : Len(ids) < MaxIds => ENABLED get_next_id(h)
    /\ \A i \in DOMAIN ids :
           i + 1 \in DOMAIN ids => ids[i + 1] = AsU64(WordInc(ids[i]))

\* The outcomes a send can resolve with.
Outcomes == {"Ok", "HttpError", "Hyper", NotListening.kind, DiedWithoutResponse.kind}

C19_OneOutcome ==
    \A r \in Sent : fut[r] \in {Pending, Dropped} \/ fut[r].kind \in Outcomes

C19_OutcomeStays ==
    \A r \in Sent : fut[r] \notin {Pending, Dropped} => fut'[r] = fut[r]

\* C19: on a reactor that keeps running, with every started exchange coming
\* to an end and the caller polling, every send whose future is pending
\* comes to resolve (unless its caller drops the future), whatever else
\* happens; it resolves with one of the listed outcomes and keeps it.
C19_NoSendHangs ==
    /\ []C19_OneOutcome
    /\ [][C19_OutcomeStays]_vars
    /\ \A r \in 1..MaxSends :
           (r \in Sent /\ fut[r] = Pending) ~> (r \in Sent /\ fut[r] # Pending)

\* C19 witness: the loop has ended with a request still queued, which was
\* never issued, and the send of that request has resolved.
C19_Witness ==
    /\ loop = "dropped"
    /\ \E r \in Sent :
           /\ accepted[r] /\ r \notin Range(started)
           /\ fut[r] \notin {Pending, Dropped}

\* C20 (as claimed): a request that was put on the channel and whose future
\* was dropped is still taken from the queue and issued: once the processing
\* future is gone, client.request has been called for every such request.
C20_AbandonedStillIssued ==
    loop = "dropped" =>
        \A r \in Sent : (accepted[r] /\ fut[r] = Dropped) => r \in Range(started)

C20_QueuedWhileUnpolled ==
    /\ \A i, j \in DOMAIN queue : i < j => queue[i] < queue[j]
    /\ \A r \in Sent :
           (accepted[r] /\ fut[r] \in {Pending, Dropped} /\ slot[r] = Empty) =>
               r \in Range(queue) \/ r \in Range(started)

C20_EnqueuedInSendStep ==
    /\ (Len(reqs') = Len(reqs) + 1 /\ ReceiverAlive) =>
           /\ queue' = Append(queue, Len(reqs'))
           /\ fut'[Len(reqs')] = Pending
    /\ (\E r \in Sent : fut[r] = Pending /\ fut'[r] # Pending) =>
           queue' = queue /\ started' = started

\* The part of C20 that holds of the code: the request is on the channel
\* when send returns, before any poll of the future, in the order of the
\* send calls; polling or dropping the future moves nothing in the queue; an
\* accepted request that has no result is queued or was issued.
C20_EnqueuedAtCall ==
    []C20_QueuedWhileUnpolled /\ [][C20_EnqueuedInSendStep]_vars

====
